---- MODULE Spec2Model ----
(***************************************************************************)
(* A model of two components of seqan3:                                    *)
(*   - seqan3::detail::strong_type (core/detail/strong_type.hpp), a value  *)
(*     wrapper whose operators are gated by a strong_type_skill bit set;   *)
(*   - seqan3::fields and seqan3::record (io/record.hpp), a tuple that is  *)
(*     also addressable by a seqan3::field tag.                            *)
(* Template instantiation (requires-clauses, static_asserts) is modelled   *)
(* as steps whose outcome is either a result or a rejection.               *)
(***************************************************************************)
EXTENDS Integers, Sequences, FiniteSets

VARIABLES
    skills,        \* strong_type::skills, the template argument skills_
    value,         \* the member `value` of each strong type object
    held,          \* the local `h` declared from the result of ++/--
    ret,           \* what the last strong_type operator call returned
    as_array,      \* fields::as_array, the template arguments fs...
    field_types,   \* the type list of the record, one kind per element
    fields_state,  \* whether fields<fs...> has been instantiated, and how
    record_state,  \* whether record<field_types, field_ids> has been
    tuple,         \* the elements of the record instance (its std::tuple)
    copy,          \* a second instance, copied from the first, if made
    out            \* what the last fields/record call returned

vars == <<skills, value, held, ret,
          as_array, field_types, fields_state, record_state, tuple, copy, out>>

strong_vars == <<skills, value, held, ret>>
record_vars == <<as_array, field_types, fields_state, record_state, tuple, copy, out>>

(***************************************************************************)
(* Bounds                                                                  *)
(***************************************************************************)
\* value_t is modelled as an unsigned integer type of this many bits
ValueBits == 2
\* largest plain integral shift amount passed to operator<< / operator>>
MaxShift == 2

\* longest tag list fields<fs...> is declared with
MaxTags == 3
\* longest type list a record is declared with
MaxTypes == 2
\* most items a container element of a record holds
MaxElemLen == 3
\* largest number a numeric element of a record holds
MaxScalar == 1

Values    == 0 .. (2^ValueBits - 1)
Shifts    == 0 .. MaxShift
Wrap(n)   == n % (2^ValueBits)

(***************************************************************************)
(* Bit operations of the built-in integer types.  They serve both the      *)
(* enum operators of strong_type_skill and the operators of value_t.       *)
(***************************************************************************)
RECURSIVE BitAnd(_, _)
BitAnd(m, n) ==
    IF m = 0 \/ n = 0 THEN 0
    ELSE (m % 2) * (n % 2) + 2 * BitAnd(m \div 2, n \div 2)

RECURSIVE BitOr(_, _)
BitOr(m, n) ==
    IF m = 0 THEN n
    ELSE IF n = 0 THEN m
    ELSE (IF (m % 2) + (n % 2) > 0 THEN 1 ELSE 0) + 2 * BitOr(m \div 2, n \div 2)

RECURSIVE BitXor(_, _)
BitXor(m, n) ==
    IF m = 0 THEN n
    ELSE IF n = 0 THEN m
    ELSE (((m % 2) + (n % 2)) % 2) + 2 * BitXor(m \div 2, n \div 2)

\* ~v on an unsigned ValueBits-wide value
BitNot(v) == (2^ValueBits - 1) - v

(***************************************************************************)
(* enum struct strong_type_skill                                           *)
(***************************************************************************)
none           == 0
add            == 2^0
subtract       == 2^1
multiply       == 2^2
divide         == 2^3
modulo         == 2^4
bitwise_and    == 2^5
bitwise_or     == 2^6
bitwise_xor    == 2^7
bitwise_not    == 2^8
bitwise_lshift == 2^9
bitwise_rshift == 2^10
logical_and    == 2^11
logical_or     == 2^12
logical_not    == 2^13
increment      == 2^14
decrement      == 2^15
convert        == 2^16
comparable     == 2^17
additive       == BitOr(add, subtract)
multiplicative == BitOr(BitOr(multiply, divide), modulo)
\* bitwise_logic without bitwise_not
bitwise_logic_binary == BitOr(BitOr(bitwise_and, bitwise_or), bitwise_xor)
bitwise_logic  == BitOr(BitOr(BitOr(bitwise_and, bitwise_or), bitwise_xor), bitwise_not)
bitwise_shift  == BitOr(bitwise_lshift, bitwise_rshift)
logic          == BitOr(BitOr(logical_and, logical_or), logical_not)

BasicSkills ==
    {add, subtract, multiply, divide, modulo, bitwise_and, bitwise_or,
     bitwise_xor, bitwise_not, bitwise_lshift, bitwise_rshift, logical_and,
     logical_or, logical_not, increment, decrement, convert, comparable}

CompositeSkills == {additive, multiplicative, bitwise_logic, bitwise_shift, logic}

RECURSIVE UnionOf(_)
UnionOf(S) ==
    IF S = {} THEN none
    ELSE LET s == CHOOSE s \in S : TRUE IN BitOr(s, UnionOf(S \ {s}))

\* The skill sets a strong type is instantiated with in this model: none,
\* every enumerator, the full set and the full set less one skill.
SkillSets ==
    {none} \cup BasicSkills \cup CompositeSkills
    \cup {UnionOf(BasicSkills)}
    \cup {UnionOf(BasicSkills \ {bitwise_rshift})}


(***************************************************************************)
(* Objects and results of the strong type                                  *)
(***************************************************************************)
Objs  == {"x", "y"}          \* two objects of the same derived_t
Names == {"x", "y", "h"}     \* h: `auto h = x++;` or `auto & h = ++x;`

\* the object a name denotes: h is its own object unless it is a reference
lvalue(n) == IF n = "h" /\ held.kind = "ref" THEN held.to ELSE n

\* strong_type::get()
get(n) == value[lvalue(n)]

\* derived_t{v}: a new object of the derived type, returned by value
derived_t(v)  == [kind |-> "derived", v |-> v, bv |-> FALSE, to |-> "-"]
\* static_cast<derived_t &>(*this)
reference(n)  == [kind |-> "ref", v |-> 0, bv |-> FALSE, to |-> lvalue(n)]
\* a bool result
boolean(b)    == [kind |-> "bool", v |-> 0, bv |-> b, to |-> "-"]
\* a value_t result
underlying(v) == [kind |-> "value_t", v |-> v, bv |-> FALSE, to |-> "-"]
\* the call does not compile: no viable operator
rejected      == [kind |-> "rejected", v |-> 0, bv |-> FALSE, to |-> "-"]
\* the call has no result object
nothing       == [kind |-> "void", v |-> 0, bv |-> FALSE, to |-> "-"]
\* the program is stopped by the hardware (integer division by zero)
trap          == [kind |-> "trap", v |-> 0, bv |-> FALSE, to |-> "-"]

\* An operation of value_t with undefined behaviour (division by zero, a
\* shift by the width or more): any value, or a trap.
Undefined == {derived_t(v) : v \in Values} \cup {trap}

\* the value read through a result
Deref(r) == IF r.kind = "ref" THEN value[r.to] ELSE r.v

NoCall == [op |-> "-", self |-> "-", other |-> "-", n |-> 0, pre |-> 0,
           bind |-> FALSE, r |-> nothing]

(***************************************************************************)
(* Element types and values of a record.  Two kinds of element type: one   *)
(* with a member clear() (a std::string, a std::vector) and an arithmetic  *)
(* one without.                                                            *)
(***************************************************************************)
ElementTypes == {"container", "scalar"}

container(items) == [type |-> "container", items |-> items, num |-> 0]
scalar(n)        == [type |-> "scalar", items |-> <<>>, num |-> n]

\* results of the calls on fields and record
element(i, v)   == [kind |-> "element", idx |-> i, bv |-> FALSE, v |-> v]
position(i)     == [kind |-> "size_t", idx |-> i, bv |-> FALSE, v |-> scalar(0)]
truth(b)        == [kind |-> "bool", idx |-> 0, bv |-> b, v |-> scalar(0)]
no_result       == [kind |-> "void", idx |-> 0, bv |-> FALSE, v |-> scalar(0)]
\* the static_assert of the call fails: the program does not compile
ill_formed      == [kind |-> "rejected", idx |-> 0, bv |-> FALSE, v |-> scalar(0)]

NoOutcome == [op |-> "-", f |-> "-", r |-> no_result]

\* no second instance of the record has been made
NoCopy == [made |-> FALSE, elems |-> <<>>]

(***************************************************************************)
(* The requires-clause of each operator                                    *)
(***************************************************************************)
requires_add              == BitAnd(skills, add) # none
\* operator- gated by the bit of operator+
requires_subtract_add     == BitAnd(skills, add) # none
requires_subtract         == BitAnd(skills, subtract) # none
requires_multiply         == BitAnd(skills, multiply) # none
requires_divide           == BitAnd(skills, divide) # none
requires_modulo           == BitAnd(skills, modulo) # none
requires_bitwise_and      == BitAnd(skills, bitwise_and) # none
requires_bitwise_or       == BitAnd(skills, bitwise_or) # none
requires_bitwise_xor      == BitAnd(skills, bitwise_xor) # none
requires_bitwise_not      == BitAnd(skills, bitwise_not) # none
requires_lshift           == BitAnd(skills, bitwise_lshift) # none
requires_lshift_integral  == BitAnd(skills, bitwise_lshift) # none
requires_rshift           == BitAnd(skills, bitwise_rshift) # none
\* operator>>(integral) gated by the bit of operator<<
requires_rshift_integral_lshift == BitAnd(skills, bitwise_lshift) # none
requires_rshift_integral  == BitAnd(skills, bitwise_rshift) # none
requires_logical_and      == BitAnd(skills, logical_and) # none
requires_logical_or       == BitAnd(skills, logical_or) # none
requires_logical_not      == BitAnd(skills, logical_not) # none
requires_pre_increment    == BitAnd(skills, increment) # none
requires_post_increment   == BitAnd(skills, increment) # none
requires_pre_decrement    == BitAnd(skills, decrement) # none
requires_post_decrement   == BitAnd(skills, decrement) # none
requires_equal            == BitAnd(skills, comparable) # none
requires_not_equal        == BitAnd(skills, comparable) # none
requires_convert          == BitAnd(skills, convert) # none

(***************************************************************************)
(* The operators.  A pure operator yields its result; one whose value_t    *)
(* operation can be undefined yields the set of its possible results; a    *)
(* mutating one yields its result r and the value v it leaves in *this.    *)
(***************************************************************************)
operator_plus(self, other)    == derived_t(Wrap(get(self) + get(other)))
\* operator- with its operands exchanged
operator_minus_reversed(self, other) == derived_t(Wrap(get(other) - get(self)))
operator_minus(self, other)   == derived_t(Wrap(get(self) - get(other)))
operator_times(self, other)   == derived_t(Wrap(get(self) * get(other)))
operator_divide(self, other) ==
    IF get(other) = 0 THEN Undefined
    ELSE {derived_t(get(self) \div get(other))}
operator_modulo(self, other) ==
    IF get(other) = 0 THEN Undefined
    ELSE {derived_t(get(self) % get(other))}

operator_bitand(self, other)  == derived_t(BitAnd(get(self), get(other)))
operator_bitor(self, other)   == derived_t(BitOr(get(self), get(other)))
operator_bitxor(self, other)  == derived_t(BitXor(get(self), get(other)))
operator_bitnot(self)         == derived_t(BitNot(get(self)))

\* v << s and v >> s of value_t
ShiftLeft(v, s)  == IF s >= ValueBits THEN Undefined ELSE {derived_t(Wrap(v * 2^s))}
ShiftRight(v, s) == IF s >= ValueBits THEN Undefined ELSE {derived_t(v \div 2^s)}

operator_lshift(self, other)          == ShiftLeft(get(self), get(other))
operator_lshift_integral(self, shift) == ShiftLeft(get(self), shift)
operator_rshift(self, other)          == ShiftRight(get(self), get(other))
operator_rshift_integral(self, shift) == ShiftRight(get(self), shift)

operator_logical_and(self, other) == boolean(get(self) # 0 /\ get(other) # 0)
operator_logical_or(self, other)  == boolean(get(self) # 0 \/ get(other) # 0)
operator_logical_not(self)        == boolean(~(get(self) # 0))

\* ++x returning a copy of *this instead of a reference to it
operator_pre_increment_copy(self) ==
    [v |-> Wrap(get(self) + 1), r |-> derived_t(Wrap(get(self) + 1))]
operator_pre_increment(self) ==
    [v |-> Wrap(get(self) + 1), r |-> reference(self)]
\* x++ taking its snapshot after the increment
operator_post_increment_late(self) ==
    [v |-> Wrap(get(self) + 1), r |-> derived_t(Wrap(get(self) + 1))]
operator_post_increment(self) ==
    [v |-> Wrap(get(self) + 1), r |-> derived_t(get(self))]
operator_pre_decrement(self) ==
    [v |-> Wrap(get(self) - 1), r |-> reference(self)]
operator_post_decrement(self) ==
    [v |-> Wrap(get(self) - 1), r |-> derived_t(get(self))]

\* == comparing with <=
operator_equal_le(self, rhs)  == boolean(get(self) <= get(rhs))
operator_equal(self, rhs)     == boolean(get(self) = get(rhs))
operator_not_equal(self, rhs) == boolean(~operator_equal(self, rhs).bv)

\* the conversion yielding whether the value is set instead of the value
operator_value_t_bool(self)   == underlying(IF get(self) # 0 THEN 1 ELSE 0)
operator_value_t(self)        == underlying(get(self))

(***************************************************************************)
(* Steps of a program that uses one strong type with objects x and y       *)
(***************************************************************************)
\* A call is a full-expression statement: it starts when the one before it
\* has ended and its temporary result is gone.
Idle == ret = NoCall /\ out = NoOutcome

\* a call of an operator written as its compound assignment: the result is
\* also stored in *this
Pure_compound(op, enabled, self, other, n, results) ==
    /\ Idle
    /\ \E r \in (IF enabled THEN results ELSE {rejected}) :
          /\ ret' = [op |-> op, self |-> self, other |-> other, n |-> n,
                     pre |-> get(self), bind |-> FALSE, r |-> r]
          /\ value' = IF r.kind = "derived"
                      THEN [value EXCEPT ![lvalue(self)] = r.v]
                      ELSE value
    /\ UNCHANGED <<skills, held>>
    /\ UNCHANGED record_vars

\* a call of an operator that leaves its operands alone
Pure(op, enabled, self, other, n, results) ==
    /\ Idle
    /\ \E r \in (IF enabled THEN results ELSE {rejected}) :
          ret' = [op |-> op, self |-> self, other |-> other, n |-> n,
                  pre |-> get(self), bind |-> FALSE, r |-> r]
    /\ UNCHANGED <<skills, value, held>>
    /\ UNCHANGED record_vars

\* a call of ++ or --, as the statement `op self;` or, with bind, as the
\* declaration `auto && h = op self;`
Mutating(op, enabled, self, bind, eff) ==
    /\ Idle
    /\ self = "h" => held.kind # "none" /\ ~bind
    /\ IF enabled
       THEN LET stored == [value EXCEPT ![lvalue(self)] = eff.v]
            IN  /\ ret' = [op |-> op, self |-> self, other |-> "-", n |-> 0,
                           pre |-> get(self), bind |-> bind, r |-> eff.r]
                /\ IF bind
                   THEN /\ held' = [kind |-> eff.r.kind,
                                    to |-> IF eff.r.kind = "ref" THEN eff.r.to ELSE "h"]
                        /\ value' = [stored EXCEPT
                                       !["h"] = IF eff.r.kind = "ref" THEN 0 ELSE eff.r.v]
                   ELSE /\ held' = held
                        /\ value' = stored
       ELSE /\ ret' = [op |-> op, self |-> self, other |-> "-", n |-> 0,
                       pre |-> get(self), bind |-> bind, r |-> rejected]
            /\ UNCHANGED <<value, held>>
    /\ UNCHANGED skills
    /\ UNCHANGED record_vars

Plus(self, other) ==
    Pure("operator+", requires_add, self, other, 0, {operator_plus(self, other)})
Minus(self, other) ==
    Pure("operator-", requires_subtract, self, other, 0, {operator_minus(self, other)})
Times(self, other) ==
    Pure("operator*", requires_multiply, self, other, 0, {operator_times(self, other)})
Divide(self, other) ==
    Pure("operator/", requires_divide, self, other, 0, operator_divide(self, other))
Modulo(self, other) ==
    Pure("operator%", requires_modulo, self, other, 0, operator_modulo(self, other))
BitwiseAnd(self, other) ==
    Pure("operator&", requires_bitwise_and, self, other, 0, {operator_bitand(self, other)})
BitwiseOr(self, other) ==
    Pure("operator|", requires_bitwise_or, self, other, 0, {operator_bitor(self, other)})
BitwiseXor(self, other) ==
    Pure("operator^", requires_bitwise_xor, self, other, 0, {operator_bitxor(self, other)})
BitwiseNot(self) ==
    Pure("operator~", requires_bitwise_not, self, "-", 0, {operator_bitnot(self)})
LeftShift(self, other) ==
    Pure("operator<<", requires_lshift, self, other, 0, operator_lshift(self, other))
LeftShiftIntegral(self, shift) ==
    Pure("operator<<(integral)", requires_lshift_integral, self, "-", shift,
         operator_lshift_integral(self, shift))
RightShift(self, other) ==
    Pure("operator>>", requires_rshift, self, other, 0, operator_rshift(self, other))
RightShiftIntegral(self, shift) ==
    Pure("operator>>(integral)", requires_rshift_integral, self, "-", shift,
         operator_rshift_integral(self, shift))
LogicalAnd(self, other) ==
    Pure("operator&&", requires_logical_and, self, other, 0,
         {operator_logical_and(self, other)})
LogicalOr(self, other) ==
    Pure("operator||", requires_logical_or, self, other, 0,
         {operator_logical_or(self, other)})
LogicalNot(self) ==
    Pure("operator!", requires_logical_not, self, "-", 0, {operator_logical_not(self)})
Equal(self, rhs) ==
    Pure("operator==", requires_equal, self, rhs, 0, {operator_equal(self, rhs)})
NotEqual(self, rhs) ==
    Pure("operator!=", requires_not_equal, self, rhs, 0, {operator_not_equal(self, rhs)})
Convert(self) ==
    Pure("operator value_t", requires_convert, self, "-", 0, {operator_value_t(self)})
\* self.get(), always available
Get(self) ==
    /\ self = "h" => held.kind # "none"
    /\ Pure("get", TRUE, self, "-", 0, {underlying(get(self))})

PreIncrement(self, bind) ==
    Mutating("++operator", requires_pre_increment, self, bind,
             operator_pre_increment(self))
PostIncrement(self, bind) ==
    Mutating("operator++", requires_post_increment, self, bind,
             operator_post_increment(self))
PreDecrement(self, bind) ==
    Mutating("--operator", requires_pre_decrement, self, bind,
             operator_pre_decrement(self))
PostDecrement(self, bind) ==
    Mutating("operator--", requires_post_decrement, self, bind,
             operator_post_decrement(self))

\* self = derived_t{v};
Construct(self, v) ==
    /\ Idle
    /\ value' = [value EXCEPT ![self] = v]
    /\ ret' = [op |-> "derived_t", self |-> self, other |-> "-", n |-> v,
               pre |-> get(self), bind |-> FALSE, r |-> nothing]
    /\ UNCHANGED <<skills, held>>
    /\ UNCHANGED record_vars

\* self = other;
CopyAssign(self, other) ==
    /\ Idle
    /\ value' = [value EXCEPT ![self] = get(other)]
    /\ ret' = [op |-> "operator=", self |-> self, other |-> other, n |-> 0,
               pre |-> get(self), bind |-> FALSE, r |-> reference(self)]
    /\ UNCHANGED <<skills, held>>
    /\ UNCHANGED record_vars

(***************************************************************************)
(* enum class field, in declaration order                                  *)
(***************************************************************************)
field_names ==
    <<"seq", "id", "qual", "offset", "bpp", "structure", "structured_seq",
      "energy", "react", "react_err", "comment", "alignment", "ref_id",
      "ref_seq", "ref_offset", "header_ptr", "flag", "mate", "mapq", "cigar",
      "tags", "bit_score", "evalue", "user_defined_0", "user_defined_1",
      "user_defined_2", "user_defined_3", "user_defined_4", "user_defined_5",
      "user_defined_6", "user_defined_7", "user_defined_8", "user_defined_9">>

field == {field_names[i] : i \in 1 .. Len(field_names)}

\* the tags the tag lists of this model are built from, and are asked for
UsedFields == {"seq", "id", "qual", "offset"}

\* sequences over S of length at most n
RECURSIVE SeqsUpTo(_, _)
SeqsUpTo(S, n) ==
    IF n = 0 THEN {<<>>}
    ELSE LET shorter == SeqsUpTo(S, n - 1)
         IN  shorter \cup {Append(q, e) : q \in {p \in shorter : Len(p) = n - 1}, e \in S}

ValuesOf(t) ==
    IF t = "container" THEN {container(q) : q \in SeqsUpTo({"c"}, MaxElemLen)}
    ELSE {scalar(n) : n \in 0 .. MaxScalar}

\* t{}: the value-initialised element
default_value(t) == IF t = "container" THEN container(<<>>) ELSE scalar(0)

\* v.clear() removing the last item only
container_clear_pop_back(v) ==
    [v EXCEPT !.items = IF Len(v.items) = 0 THEN <<>>
                        ELSE SubSeq(v.items, 1, Len(v.items) - 1)]
\* v.clear() of a standard container
container_clear(v) == [v EXCEPT !.items = <<>>]

(***************************************************************************)
(* struct fields<fs...>                                                    *)
(***************************************************************************)
\* std::numeric_limits<size_t>::max(), with size_t at the width of the
\* integers of the model checker
npos == 2147483647

size == Len(as_array)

\* the loop of index_of from position i on (as_array[i] is the i-th, from 0)
RECURSIVE index_of_loop(_, _, _)
index_of_loop(arr, i, f) ==
    IF i < Len(arr)
    THEN IF arr[i + 1] = f THEN i ELSE index_of_loop(arr, i + 1, f)
    ELSE npos

\* index_of with its loop started at 1
index_of_from_one(f) == index_of_loop(as_array, 1, f)
index_of(f) == index_of_loop(as_array, 0, f)

\* contains taking position 0 for "not found"
contains_nonzero(f) == index_of(f) # 0
contains(f) == index_of(f) # npos

\* the two loops of the lambda of the static_assert, at positions i and j
RECURSIVE unique_loop(_, _, _)
unique_loop(arr, i, j) ==
    IF i < Len(arr)
    THEN IF j < Len(arr)
         THEN IF arr[i + 1] = arr[j + 1] THEN FALSE ELSE unique_loop(arr, i, j + 1)
         ELSE unique_loop(arr, i + 1, i + 2)
    ELSE TRUE

\* the static_assert with its inner loop started at j = i
fields_static_assert_self == unique_loop(as_array, 0, 0)
\* static_assert: "You may not include a field twice into fields<>."
fields_static_assert == unique_loop(as_array, 0, 1)

(***************************************************************************)
(* struct record<field_types, field_ids>                                   *)
(***************************************************************************)
\* the static_assert asking only for no more types than IDs
record_static_assert_at_most == Len(field_types) <= Len(as_array)
\* static_assert: "You must give as many IDs as types to seqan3::record."
record_static_assert == Len(field_types) = Len(as_array)

\* std::get<i>(tuple), i counted from 0; an i that is no position of the
\* tuple does not compile
std_get(t, i) == IF i < Len(t) THEN element(i, t[i + 1]) ELSE ill_formed

\* requires (t & v) { v.clear(); }
has_clear(t) == t = "container"

\* clear_element without the overload that assigns {}
clear_element_only_clear(t, v) == IF has_clear(t) THEN container_clear(v) ELSE v
\* the overload of clear_element chosen for an element of type t
clear_element(t, v) == IF has_clear(t) THEN container_clear(v) ELSE default_value(t)

\* expander: clear_element on every element of the pack
expander(args) == [i \in 1 .. Len(args) |-> clear_element(field_types[i], args[i])]

\* record() = default: every element value-initialised
default_record == [i \in 1 .. Len(field_types) |-> default_value(field_types[i])]

\* get_impl without its static_assert, yielding the first element for a
\* tag that is not found
get_impl_fallback(f) ==
    IF contains(f) THEN std_get(tuple, index_of(f))
    ELSE std_get(tuple, 0)
\* get_impl yielding the first element whatever the tag
get_impl_first(f) ==
    IF contains(f) THEN std_get(tuple, 0)
    ELSE ill_formed
\* get_impl: the element of tag f, or the failed static_assert
\* "The record does not contain the field you wish to retrieve."
get_impl(f) ==
    IF contains(f) THEN std_get(tuple, index_of(f))
    ELSE ill_formed

(***************************************************************************)
(* Steps of a program that declares one tag list and one record type and   *)
(* uses one instance of the record                                         *)
(***************************************************************************)
\* fields<fs...> is instantiated: its static_assert is evaluated
InstantiateFields ==
    /\ Idle
    /\ fields_state = "declared"
    /\ fields_state' = IF fields_static_assert THEN "accepted" ELSE "rejected"
    /\ out' = [op |-> "fields", f |-> "-",
               r |-> IF fields_static_assert THEN no_result ELSE ill_formed]
    /\ UNCHANGED <<as_array, field_types, record_state, tuple, copy>>
    /\ UNCHANGED strong_vars

\* fields<fs...>::index_of(f)
IndexOf(f) ==
    /\ Idle
    /\ fields_state = "accepted"
    /\ out' = [op |-> "index_of", f |-> f, r |-> position(index_of(f))]
    /\ UNCHANGED <<as_array, field_types, fields_state, record_state, tuple, copy>>
    /\ UNCHANGED strong_vars

\* fields<fs...>::contains(f)
Contains(f) ==
    /\ Idle
    /\ fields_state = "accepted"
    /\ out' = [op |-> "contains", f |-> f, r |-> truth(contains(f))]
    /\ UNCHANGED <<as_array, field_types, fields_state, record_state, tuple, copy>>
    /\ UNCHANGED strong_vars

\* record<field_types, fields<fs...>> r{}; the record type is instantiated
\* (which needs its tag list) and an instance is default-constructed
InstantiateRecord ==
    /\ Idle
    /\ fields_state # "declared"
    /\ record_state = "declared"
    /\ IF fields_state = "accepted" /\ record_static_assert
       THEN /\ record_state' = "accepted"
            /\ tuple' = default_record
            /\ out' = [op |-> "record", f |-> "-", r |-> no_result]
       ELSE /\ record_state' = "rejected"
            /\ tuple' = tuple
            /\ out' = [op |-> "record", f |-> "-", r |-> ill_formed]
    /\ UNCHANGED <<as_array, field_types, fields_state, copy>>
    /\ UNCHANGED strong_vars

\* get<f>(r): read the element of tag f
GetByTag(f) ==
    /\ Idle
    /\ record_state = "accepted"
    /\ out' = [op |-> "get<field>", f |-> f, r |-> get_impl(f)]
    /\ UNCHANGED <<as_array, field_types, fields_state, record_state, tuple, copy>>
    /\ UNCHANGED strong_vars

\* get<f>(r) = v: write the element of tag f through the reference returned
SetByTag(f, v) ==
    /\ Idle
    /\ record_state = "accepted"
    /\ LET got == get_impl(f)
       IN  IF got.kind = "element"
           THEN /\ v \in ValuesOf(got.v.type)
                /\ tuple' = [tuple EXCEPT ![got.idx + 1] = v]
                /\ out' = [op |-> "get<field>=", f |-> f, r |-> element(got.idx, v)]
           ELSE /\ tuple' = tuple
                /\ out' = [op |-> "get<field>=", f |-> f, r |-> ill_formed]
    /\ UNCHANGED <<as_array, field_types, fields_state, record_state, copy>>
    /\ UNCHANGED strong_vars

\* std::get<i>(r): positional access of the std::tuple base
GetByIndex(i) ==
    /\ Idle
    /\ record_state = "accepted"
    /\ out' = [op |-> "get<index>", f |-> "-",
               r |-> std_get(tuple, i)]
    /\ UNCHANGED <<as_array, field_types, fields_state, record_state, tuple, copy>>
    /\ UNCHANGED strong_vars

\* r.clear() on a record that shares its elements with its copy
Clear_shared ==
    /\ Idle
    /\ record_state = "accepted"
    /\ tuple' = expander(tuple)
    /\ copy' = IF copy.made THEN [copy EXCEPT !.elems = expander(copy.elems)] ELSE copy
    /\ out' = [op |-> "clear", f |-> "-", r |-> no_result]
    /\ UNCHANGED <<as_array, field_types, fields_state, record_state>>
    /\ UNCHANGED strong_vars

\* r.clear()
Clear ==
    /\ Idle
    /\ record_state = "accepted"
    /\ tuple' = expander(tuple)
    /\ out' = [op |-> "clear", f |-> "-", r |-> no_result]
    /\ UNCHANGED <<as_array, field_types, fields_state, record_state, copy>>
    /\ UNCHANGED strong_vars

\* record s{r}; or s = r; the defaulted copy: every element is copied
CopyRecord ==
    /\ Idle
    /\ record_state = "accepted"
    /\ copy' = [made |-> TRUE, elems |-> tuple]
    /\ out' = [op |-> "record(record const &)", f |-> "-", r |-> no_result]
    /\ UNCHANGED <<as_array, field_types, fields_state, record_state, tuple>>
    /\ UNCHANGED strong_vars

\* r = s; the defaulted copy assignment, from the copy
CopyRecordBack ==
    /\ Idle
    /\ copy.made
    /\ tuple' = copy.elems
    /\ out' = [op |-> "operator=(record const &)", f |-> "-", r |-> no_result]
    /\ UNCHANGED <<as_array, field_types, fields_state, record_state, copy>>
    /\ UNCHANGED strong_vars

\* get_impl on the copy s
get_impl_of_copy(f) ==
    IF contains(f) THEN std_get(copy.elems, index_of(f))
    ELSE ill_formed

\* get<f>(s) = v: write the element of tag f of the copy
SetByTagOfCopy(f, v) ==
    /\ Idle
    /\ copy.made
    /\ LET got == get_impl_of_copy(f)
       IN  IF got.kind = "element"
           THEN /\ v \in ValuesOf(got.v.type)
                /\ copy' = [copy EXCEPT !.elems[got.idx + 1] = v]
                /\ out' = [op |-> "get<field>(copy)=", f |-> f, r |-> element(got.idx, v)]
           ELSE /\ copy' = copy
                /\ out' = [op |-> "get<field>(copy)=", f |-> f, r |-> ill_formed]
    /\ UNCHANGED <<as_array, field_types, fields_state, record_state, tuple>>
    /\ UNCHANGED strong_vars

\* s.clear()
ClearCopy ==
    /\ Idle
    /\ copy.made
    /\ copy' = [copy EXCEPT !.elems = expander(copy.elems)]
    /\ out' = [op |-> "clear(copy)", f |-> "-", r |-> no_result]
    /\ UNCHANGED <<as_array, field_types, fields_state, record_state, tuple>>
    /\ UNCHANGED strong_vars

\* the end of the statement: the temporary result of the call is destroyed
\* (a trap has ended the program before)
EndStatement ==
    /\ ~Idle
    /\ ret.r.kind # "trap"
    /\ ret' = NoCall
    /\ out' = NoOutcome
    /\ UNCHANGED <<skills, value, held>>
    /\ UNCHANGED <<as_array, field_types, fields_state, record_state, tuple, copy>>

(***************************************************************************)
(* The two specifications                                                  *)
(***************************************************************************)
NoRecord ==
    /\ as_array = <<>>
    /\ field_types = <<>>
    /\ fields_state = "declared"
    /\ record_state = "declared"
    /\ tuple = <<>>
    /\ copy = NoCopy
    /\ out = NoOutcome

NoStrongType ==
    /\ skills = none
    /\ value = [n \in Names |-> 0]
    /\ held = [kind |-> "none", to |-> "h"]
    /\ ret = NoCall

\* x and y are constructed from any two values; h is not declared yet
StrongInit ==
    /\ skills \in SkillSets
    /\ value \in {w \in [Names -> Values] : w["h"] = 0}
    /\ held = [kind |-> "none", to |-> "h"]
    /\ ret = NoCall
    /\ NoRecord

StrongNext ==
    \/ EndStatement
    \/ \E self \in Objs, other \in Objs :
          \/ Plus(self, other)
          \/ Minus(self, other)
          \/ Times(self, other)
          \/ Divide(self, other)
          \/ Modulo(self, other)
          \/ BitwiseAnd(self, other)
          \/ BitwiseOr(self, other)
          \/ BitwiseXor(self, other)
          \/ LeftShift(self, other)
          \/ RightShift(self, other)
          \/ LogicalAnd(self, other)
          \/ LogicalOr(self, other)
          \/ Equal(self, other)
          \/ NotEqual(self, other)
          \/ CopyAssign(self, other)
    \/ \E self \in Objs :
          \/ BitwiseNot(self)
          \/ LogicalNot(self)
          \/ Convert(self)
          \/ \E shift \in Shifts :
                \/ LeftShiftIntegral(self, shift)
                \/ RightShiftIntegral(self, shift)
          \/ \E v \in Values : Construct(self, v)
    \/ \E self \in Names :
          \/ Get(self)
          \/ \E bind \in BOOLEAN :
                \/ PreIncrement(self, bind)
                \/ PostIncrement(self, bind)
                \/ PreDecrement(self, bind)
                \/ PostDecrement(self, bind)

StrongSpec == StrongInit /\ [][StrongNext]_vars

TagLists  == SeqsUpTo(UsedFields, MaxTags)
TypeLists == SeqsUpTo(ElementTypes, MaxTypes)

\* a tag list and a type list are written down; nothing is instantiated yet
RecordInit ==
    /\ as_array \in TagLists
    /\ field_types \in TypeLists
    /\ fields_state = "declared"
    /\ record_state = "declared"
    /\ tuple = <<>>
    /\ copy = NoCopy
    /\ out = NoOutcome
    /\ NoStrongType

RecordNext ==
    \/ EndStatement
    \/ InstantiateFields
    \/ InstantiateRecord
    \/ Clear
    \/ \E i \in 0 .. MaxTypes : GetByIndex(i)
    \/ \E f \in UsedFields :
          \/ IndexOf(f)
          \/ Contains(f)
          \/ GetByTag(f)
          \/ \E t \in ElementTypes : \E v \in ValuesOf(t) : SetByTag(f, v)

RecordSpec == RecordInit /\ [][RecordNext]_vars

\* A program that copies: it uses either the strong type or the record (the
\* two know nothing of each other), and only the calls that store a value.
NoRecordDeclared ==
    /\ as_array = <<>>
    /\ field_types = <<>>
    /\ fields_state = "declared"
    /\ record_state = "declared"

NoStrongTypeUsed ==
    /\ skills = none
    /\ value = [n \in Names |-> 0]
    /\ held.kind = "none"

\* the tag lists of such a program: the first tags of the enumeration
CopyTagLists == {SubSeq(field_names, 1, n) : n \in 0 .. MaxTags}

CopyInit ==
    \/ StrongInit
    \/ /\ as_array \in CopyTagLists
       /\ field_types \in TypeLists
       /\ fields_state = "declared"
       /\ record_state = "declared"
       /\ tuple = <<>>
       /\ copy = NoCopy
       /\ out = NoOutcome
       /\ NoStrongType

CopyNext ==
    \/ EndStatement
    \/ /\ NoRecordDeclared
       /\ \/ \E self \in Objs, other \in Objs : CopyAssign(self, other)
          \/ \E self \in Objs, v \in Values : Construct(self, v)
          \/ \E self \in Names, bind \in BOOLEAN :
                \/ PreIncrement(self, bind)
                \/ PostIncrement(self, bind)
                \/ PreDecrement(self, bind)
                \/ PostDecrement(self, bind)
    \/ /\ NoStrongTypeUsed
       /\ \/ InstantiateFields
          \/ InstantiateRecord
          \/ CopyRecord
          \/ CopyRecordBack
          \/ Clear
          \/ ClearCopy
          \/ \E f \in UsedFields : \E t \in ElementTypes : \E v \in ValuesOf(t) :
                \/ SetByTag(f, v)
                \/ SetByTagOfCopy(f, v)

CopySpec == CopyInit /\ [][CopyNext]_vars

Init == StrongInit \/ RecordInit
Next == StrongNext \/ RecordNext \/ CopyNext
Spec == Init /\ [][Next]_vars

(***************************************************************************)
(* Properties of the strong type                                           *)
(***************************************************************************)
\* whether bit k (from 0) of the set s of skills is set
HasBit(s, k) == (s \div 2^k) % 2 = 1

\* the operators that are gated, each with the bit of its family
FamilyBit ==
    [p \in {"operator+", "operator-", "operator*", "operator/", "operator%",
            "operator&", "operator|", "operator^", "operator~", "operator<<",
            "operator<<(integral)", "operator>>", "operator>>(integral)",
            "operator&&", "operator||", "operator!", "++operator", "operator++",
            "--operator", "operator--", "operator value_t", "operator==",
            "operator!="} |->
        CASE p = "operator+" -> 0
          [] p = "operator-" -> 1
          [] p = "operator*" -> 2
          [] p = "operator/" -> 3
          [] p = "operator%" -> 4
          [] p = "operator&" -> 5
          [] p = "operator|" -> 6
          [] p = "operator^" -> 7
          [] p = "operator~" -> 8
          [] p \in {"operator<<", "operator<<(integral)"} -> 9
          [] p \in {"operator>>", "operator>>(integral)"} -> 10
          [] p = "operator&&" -> 11
          [] p = "operator||" -> 12
          [] p = "operator!" -> 13
          [] p \in {"++operator", "operator++"} -> 14
          [] p \in {"--operator", "operator--"} -> 15
          [] p = "operator value_t" -> 16
          [] p \in {"operator==", "operator!="} -> 17]

GatedOperators == DOMAIN FamilyBit

\* C1: an operator call is accepted if and only if the bit of the operator's
\* family is set in the skills of the type; with no skill every gated
\* operator is rejected; a rejected call yields no result and leaves the
\* object it was written for as it was.
C1_OperatorIffSkill ==
    /\ ret.op \in GatedOperators =>
          /\ (ret.r.kind # "rejected") <=> HasBit(skills, FamilyBit[ret.op])
          /\ skills = 0 => ret.r.kind = "rejected"
          /\ ret.r.kind = "rejected" =>
                /\ ret.r = rejected
                /\ get(ret.self) = ret.pre
    /\ ret.op \in {"get", "derived_t", "operator="} => ret.r.kind # "rejected"

\* C1 witness: a type with only the additive skills was asked to multiply
C1_Witness ==
    /\ skills = additive
    /\ ret.op = "operator*"
    /\ ret.r.kind = "rejected"

\* C2: with the comparable skill, == is reflexive, symmetric and agrees with
\* the equality of the held values, and != is the negation of ==, both for
\* the operators on any two objects and for the result of the last call.
C2_Comparable ==
    HasBit(skills, 17) =>
        /\ \A a \in Objs, b \in Objs :
              /\ operator_equal(a, a).bv
              /\ operator_equal(a, b).bv = operator_equal(b, a).bv
              /\ operator_equal(a, b).bv = (value[a] = value[b])
              /\ operator_not_equal(a, b).bv = ~operator_equal(a, b).bv
        /\ ret.op = "operator==" =>
              /\ ret.r.kind = "bool"
              /\ ret.r.bv = (value[ret.self] = value[ret.other])
        /\ ret.op = "operator!=" =>
              /\ ret.r.kind = "bool"
              /\ ret.r.bv = ~(value[ret.self] = value[ret.other])

\* C2 witness: x != y was called on two different values and said true
C2_Witness ==
    /\ HasBit(skills, 17)
    /\ ret.op = "operator!="
    /\ ret.self = "x" /\ ret.other = "y"
    /\ value["x"] # value["y"]
    /\ ret.r.bv

\* the arithmetic of value_t (unsigned, ValueBits wide): v + 1 and v - 1
Succ(v) == (v + 1) % (2^ValueBits)
Pred(v) == (v + 2^ValueBits - 1) % (2^ValueBits)

C3_State ==
    /\ (ret.op = "operator++" /\ ret.r.kind # "rejected") =>
          /\ ret.r.kind = "derived"
          /\ Deref(ret.r) = ret.pre
          /\ get(ret.self) = Succ(ret.pre)
          /\ ret.bind => held.kind = "derived" /\ value["h"] = ret.pre
    /\ (ret.op = "operator--" /\ ret.r.kind # "rejected") =>
          /\ ret.r.kind = "derived"
          /\ Deref(ret.r) = ret.pre
          /\ get(ret.self) = Pred(ret.pre)
          /\ ret.bind => held.kind = "derived" /\ value["h"] = ret.pre

\* a step that is not a call on h itself nor a new declaration of h
C3_Step ==
    (held.kind = "derived" /\ ret'.self # "h" /\ ~ret'.bind) =>
        /\ held' = held
        /\ value'["h"] = value["h"]

\* C3: x++ (x--) on a held value v returns a new value holding v and leaves
\* v + 1 (v - 1), in the arithmetic of value_t, in x; the value returned,
\* kept as h, is not changed by any later call on x or y.
C3_PostIncrement == []C3_State /\ [][C3_Step]_vars

\* C3 witness: `auto h = x++;` on x = 1 left h = 1 and x = 2
C3_Witness ==
    /\ ret.op = "operator++"
    /\ ret.self = "x"
    /\ ret.bind
    /\ ret.pre = 1
    /\ value["h"] = 1
    /\ value["x"] = 2

C4_State ==
    /\ (ret.op = "++operator" /\ ret.r.kind # "rejected") =>
          /\ ret.r.kind = "ref"
          /\ ret.r.to = lvalue(ret.self)
          /\ Deref(ret.r) = Succ(ret.pre)
          /\ get(ret.self) = Succ(ret.pre)
          /\ ret.bind => held = [kind |-> "ref", to |-> ret.self]
    /\ (ret.op = "--operator" /\ ret.r.kind # "rejected") =>
          /\ ret.r.kind = "ref"
          /\ ret.r.to = lvalue(ret.self)
          /\ Deref(ret.r) = Pred(ret.pre)
          /\ get(ret.self) = Pred(ret.pre)
          /\ ret.bind => held = [kind |-> "ref", to |-> ret.self]

\* a call of ++ or -- on h, a reference to x or to y
C4_Step ==
    (held.kind = "ref" /\ ret'.self = "h" /\ ret'.r.kind \notin {"rejected", "value_t"}) =>
        /\ ret'.op \in {"++operator", "operator++"} =>
              value'[held.to] = Succ(value[held.to])
        /\ ret'.op \in {"--operator", "operator--"} =>
              value'[held.to] = Pred(value[held.to])

\* C4: ++x (--x) on a held value v leaves v + 1 (v - 1), in the arithmetic
\* of value_t, in x and returns a reference to x itself: reading through it
\* yields the new value at once, and a later ++ or -- through the reference,
\* kept as h, changes x.
C4_PreIncrement == []C4_State /\ [][C4_Step]_vars

\* C4 witness: after `auto & h = ++x;` a `++h;` has changed x
C4_Witness ==
    /\ held = [kind |-> "ref", to |-> "x"]
    /\ ret.op = "++operator"
    /\ ret.self = "h"
    /\ ret.r.kind = "ref"
    /\ ret.r.to = "x"
    /\ value["x"] = Succ(ret.pre)

\* the bits (from 0) set in a value of value_t, and the value of a set of bits
BitsOf(v) == {k \in 0 .. ValueBits - 1 : HasBit(v, k)}

RECURSIVE FromBits(_)
FromBits(S) ==
    IF S = {} THEN 0
    ELSE LET k == CHOOSE k \in S : TRUE IN 2^k + FromBits(S \ {k})

\* a op b on value_t where it is defined: unsigned arithmetic modulo
\* 2^ValueBits, a non-zero divisor, a shift below the width
Defined(op, a, b) ==
    CASE op \in {"operator/", "operator%"}   -> b # 0
      [] op \in {"operator<<", "operator>>"} -> b < ValueBits
      [] OTHER -> TRUE

ValueOf(op, a, b) ==
    CASE op = "operator+"  -> (a + b) % (2^ValueBits)
      [] op = "operator-"  -> (a + 2^ValueBits - b) % (2^ValueBits)
      [] op = "operator*"  -> (a * b) % (2^ValueBits)
      [] op = "operator/"  -> CHOOSE q \in Values : \E r \in 0 .. b - 1 : a = q * b + r
      [] op = "operator%"  -> CHOOSE r \in 0 .. b - 1 : \E q \in Values : a = q * b + r
      [] op = "operator&"  -> FromBits(BitsOf(a) \cap BitsOf(b))
      [] op = "operator|"  -> FromBits(BitsOf(a) \cup BitsOf(b))
      [] op = "operator^"  -> FromBits((BitsOf(a) \cup BitsOf(b)) \ (BitsOf(a) \cap BitsOf(b)))
      [] op = "operator<<" -> FromBits({k + b : k \in BitsOf(a)} \cap (0 .. ValueBits - 1))
      [] op = "operator>>" -> FromBits({k - b : k \in BitsOf(a)} \cap (0 .. ValueBits - 1))

\* C12: an accepted x op y, for op one of + - * / % & | ^ << >> and the
\* operands in the domain where value_t defines op, is a new value of the
\* derived type holding x.get() op y.get(); an accepted x && y (x || y) is
\* the bool x.get() && y.get() (x.get() || y.get()).
C12_BinaryResult ==
    ret.r.kind # "rejected" =>
        /\ (ret.op \in {"operator+", "operator-", "operator*", "operator/",
                        "operator%", "operator&", "operator|", "operator^",
                        "operator<<", "operator>>"}
              /\ Defined(ret.op, value[ret.self], value[ret.other])) =>
              /\ ret.r.kind = "derived"
              /\ ret.r.v \in Values
              /\ ret.r.v = ValueOf(ret.op, value[ret.self], value[ret.other])
        /\ ret.op = "operator&&" =>
              /\ ret.r.kind = "bool"
              /\ ret.r.bv = (value[ret.self] # 0 /\ value[ret.other] # 0)
        /\ ret.op = "operator||" =>
              /\ ret.r.kind = "bool"
              /\ ret.r.bv = (value[ret.self] # 0 \/ value[ret.other] # 0)

\* C12 witness: x - y on x = 0 and y = 1 returned the largest value of
\* value_t
C12_Witness ==
    /\ ret.op = "operator-"
    /\ ret.self = "x" /\ ret.other = "y"
    /\ value["x"] = 0 /\ value["y"] = 1
    /\ ret.r.kind = "derived"
    /\ ret.r.v = 2^ValueBits - 1

C13_State ==
    /\ ret.op = "derived_t" =>
          /\ get(ret.self) = ret.n
          /\ HasBit(skills, 16) => operator_value_t(ret.self) = underlying(ret.n)
    /\ ret.op = "get" =>
          /\ ret.r = underlying(get(ret.self))
          /\ get(ret.self) = ret.pre
    /\ (ret.op = "operator value_t" /\ HasBit(skills, 16)) =>
          /\ ret.r = underlying(get(ret.self))
          /\ get(ret.self) = ret.pre

\* a call of get() or of the conversion
C13_Step ==
    ret'.op \in {"get", "operator value_t"} =>
        /\ value' = value
        /\ held' = held
        /\ ret'.r.kind # "rejected" =>
              \A n \in Names : ret'.self = n => ret'.r = underlying(get(n))

\* C13: an object constructed from v holds v: get() yields v and, with the
\* convert skill, so does the conversion to value_t; get() and the
\* conversion yield the held value and change no held value.
C13_RoundTrip == []C13_State /\ [][C13_Step]_vars

\* C13 witness: x, holding the largest value of value_t, was converted to
\* value_t
C13_Witness ==
    /\ HasBit(skills, 16)
    /\ ret.op = "operator value_t"
    /\ ret.self = "x"
    /\ value["x"] = 2^ValueBits - 1
    /\ ret.r = underlying(2^ValueBits - 1)

\* the binary arithmetic, bitwise, shift, logical and comparison operators
\* and the unary bitwise-not and logical-not
NonMutatingOperators ==
    {"operator+", "operator-", "operator*", "operator/", "operator%",
     "operator&", "operator|", "operator^", "operator~", "operator<<",
     "operator<<(integral)", "operator>>", "operator>>(integral)",
     "operator&&", "operator||", "operator!", "operator==", "operator!="}

IncrementDecrement == {"++operator", "operator++", "--operator", "operator--"}

C14_State ==
    ret.op \in NonMutatingOperators =>
        /\ get(ret.self) = ret.pre
        /\ ret.r.kind # "ref"

C14_Step ==
    /\ ret'.op \in NonMutatingOperators =>
          /\ value' = value
          /\ held' = held
    /\ (ret'.op \in GatedOperators /\ value' # value) =>
          ret'.op \in IncrementDecrement
    /\ (ret'.op \in IncrementDecrement /\ ret'.r.kind # "rejected") =>
          value' # value

\* C14: a call of a binary arithmetic, bitwise, shift, logical or comparison
\* operator, of ~ or of ! changes no held value, neither of its operands nor
\* of any other object, and returns no reference to an operand; of the
\* gated operators only ++ and -- change a held value, and they do.
C14_OperandsUnchanged == []C14_State /\ [][C14_Step]_vars

\* C14 witness: x + y on x = 1 and y = 2 returned 3 and x and y are as before
C14_Witness ==
    /\ ret.op = "operator+"
    /\ ret.self = "x" /\ ret.other = "y"
    /\ ret.r = derived_t(3)
    /\ ret.pre = 1
    /\ value["x"] = 1 /\ value["y"] = 2

\* C15: for every set of skills the form of << taking a strong type and the
\* form taking a plain integer are available together, exactly with the
\* left-shift bit, and so the two forms of >> with the right-shift bit; an
\* accepted x << n (x << y) with the amount below the width of value_t is a
\* new value holding x.get() << n (x.get() << y.get()), likewise for >>.
C15_ShiftForms ==
    /\ requires_lshift <=> requires_lshift_integral
    /\ requires_rshift <=> requires_rshift_integral
    /\ requires_lshift <=> HasBit(skills, 9)
    /\ requires_rshift <=> HasBit(skills, 10)
    /\ ret.op \in {"operator<<", "operator<<(integral)"} =>
          ((ret.r.kind # "rejected") <=> HasBit(skills, 9))
    /\ ret.op \in {"operator>>", "operator>>(integral)"} =>
          ((ret.r.kind # "rejected") <=> HasBit(skills, 10))
    /\ (ret.op = "operator<<(integral)" /\ HasBit(skills, 9) /\ ret.n < ValueBits) =>
          ret.r = derived_t(ValueOf("operator<<", value[ret.self], ret.n))
    /\ (ret.op = "operator>>(integral)" /\ HasBit(skills, 10) /\ ret.n < ValueBits) =>
          ret.r = derived_t(ValueOf("operator>>", value[ret.self], ret.n))
    /\ (ret.op = "operator<<" /\ HasBit(skills, 9) /\ value[ret.other] < ValueBits) =>
          ret.r = derived_t(ValueOf("operator<<", value[ret.self], value[ret.other]))
    /\ (ret.op = "operator>>" /\ HasBit(skills, 10) /\ value[ret.other] < ValueBits) =>
          ret.r = derived_t(ValueOf("operator>>", value[ret.self], value[ret.other]))

\* C15 witness: with the left-shift skill alone, x << 1 on x = 3 returned 2
C15_Witness ==
    /\ skills = bitwise_lshift
    /\ ret.op = "operator<<(integral)"
    /\ ret.n = 1
    /\ value[ret.self] = 3
    /\ ret.r = derived_t(2)

\* the bits (from 0) set in a set of skills
SkillBits(s) == {k \in 0 .. 17 : HasBit(s, k)}

\* whether the requires-clause of a gated operator holds
Available(p) ==
    CASE p = "operator+" -> requires_add
      [] p = "operator-" -> requires_subtract
      [] p = "operator*" -> requires_multiply
      [] p = "operator/" -> requires_divide
      [] p = "operator%" -> requires_modulo
      [] p = "operator&" -> requires_bitwise_and
      [] p = "operator|" -> requires_bitwise_or
      [] p = "operator^" -> requires_bitwise_xor
      [] p = "operator~" -> requires_bitwise_not
      [] p = "operator<<" -> requires_lshift
      [] p = "operator<<(integral)" -> requires_lshift_integral
      [] p = "operator>>" -> requires_rshift
      [] p = "operator>>(integral)" -> requires_rshift_integral
      [] p = "operator&&" -> requires_logical_and
      [] p = "operator||" -> requires_logical_or
      [] p = "operator!" -> requires_logical_not
      [] p = "++operator" -> requires_pre_increment
      [] p = "operator++" -> requires_post_increment
      [] p = "--operator" -> requires_pre_decrement
      [] p = "operator--" -> requires_post_decrement
      [] p = "operator value_t" -> requires_convert
      [] p = "operator==" -> requires_equal
      [] p = "operator!=" -> requires_not_equal

\* the operators of each composite group, and of none
GroupOperators(g) ==
    CASE g = additive       -> {"operator+", "operator-"}
      [] g = multiplicative -> {"operator*", "operator/", "operator%"}
      [] g = bitwise_logic  -> {"operator&", "operator|", "operator^", "operator~"}
      [] g = bitwise_shift  -> {"operator<<", "operator<<(integral)",
                                "operator>>", "operator>>(integral)"}
      [] g = logic          -> {"operator&&", "operator||", "operator!"}
      [] g = none           -> {}

\* the enumerators: each composite group is the union of its members, the
\* basic skills are 18 single bits, each a different one, none has no bit
C16_Enumerators ==
    /\ SkillBits(additive) = {0, 1}
    /\ additive = UnionOf({add, subtract})
    /\ SkillBits(multiplicative) = {2, 3, 4}
    /\ multiplicative = UnionOf({multiply, divide, modulo})
    /\ SkillBits(bitwise_logic) = {5, 6, 7, 8}
    /\ bitwise_logic = UnionOf({bitwise_and, bitwise_or, bitwise_xor, bitwise_not})
    /\ SkillBits(bitwise_shift) = {9, 10}
    /\ bitwise_shift = UnionOf({bitwise_lshift, bitwise_rshift})
    /\ SkillBits(logic) = {11, 12, 13}
    /\ logic = UnionOf({logical_and, logical_or, logical_not})
    /\ Cardinality(BasicSkills) = 18
    /\ \A a \in BasicSkills :
          /\ Cardinality(SkillBits(a)) = 1
          /\ \A b \in BasicSkills \ {a} :
                /\ SkillBits(a) \cap SkillBits(b) = {}
                /\ BitAnd(a, b) = none
    /\ SkillBits(none) = {}

\* C16: each composite group is the union of its members: additive of add
\* and subtract, multiplicative of multiply, divide and modulo,
\* bitwise_logic of bitwise and, or, xor and not, bitwise_shift of the two
\* shifts, logic of logical and, or and not; the 18 basic skills are single
\* bits, each a different one; none has no bit; a type with a group (or
\* none) as its skills has the operators of the group's members and no
\* other gated operator, both by their requires-clauses and at every call.
\* (The skills of a type never change: its requires-clauses are examined
\* between two calls while h is not declared, its calls at every call.)
C16_Groups ==
    /\ C16_Enumerators
    /\ (ret = NoCall /\ held.kind = "none") =>
          /\ {p \in GatedOperators : Available(p)}
                = {p \in GatedOperators : FamilyBit[p] \in SkillBits(skills)}
          /\ skills \in CompositeSkills \cup {none} =>
                {p \in GatedOperators : Available(p)} = GroupOperators(skills)
    /\ (skills \in CompositeSkills \cup {none} /\ ret.op \in GatedOperators) =>
          ((ret.r.kind # "rejected") <=> (ret.op \in GroupOperators(skills)))

\* C16 witness: a type with the skills bitwise_logic was asked for ~x and
\* returned a new value
C16_Witness ==
    /\ skills = bitwise_logic
    /\ ret.op = "operator~"
    /\ ret.r.kind = "derived"
    /\ ret.r.v = BitNot(value[ret.self])

(***************************************************************************)
(* Properties of fields and record                                         *)
(***************************************************************************)
\* the positions (from 0) of tag t in the tag list
PositionsOf(t) == {i \in 0 .. Len(as_array) - 1 : as_array[i + 1] = t}

\* C5: for an accepted tag list (N distinct tags) index_of yields the
\* declared position, from 0 and below N, of a tag of the list and npos for
\* any other tag of the enumeration; npos is no position of any list; for
\* {seq, id, qual}, index_of(id) = 1 and index_of(offset) = npos.
\* (The tag list never changes: all tags of the enumeration are examined
\* where the list has just been accepted, the tag asked for at every call.)
C5_IndexOf ==
    /\ fields_state = "accepted" =>
          /\ out.op = "fields" =>
                \A t \in field :
                    /\ \A i \in PositionsOf(t) : index_of(t) = i
                    /\ PositionsOf(t) = {} => index_of(t) = npos
                    /\ PositionsOf(t) # {} => index_of(t) \in 0 .. Len(as_array) - 1
          /\ npos \notin 0 .. Len(as_array) - 1
          /\ out.op = "index_of" =>
                /\ out.r.kind = "size_t"
                /\ IF PositionsOf(out.f) = {} THEN out.r.idx = npos
                   ELSE out.r.idx \in PositionsOf(out.f)
    /\ as_array = <<"seq", "id", "qual">> =>
          /\ index_of("id") = 1
          /\ index_of("offset") = npos

\* C5 witness: index_of(id) on {seq, id, qual} returned 1
C5_Witness ==
    /\ fields_state = "accepted"
    /\ as_array = <<"seq", "id", "qual">>
    /\ out.op = "index_of"
    /\ out.f = "id"
    /\ out.r.idx = 1

\* C6: for an accepted tag list and every tag t of the enumeration,
\* contains(t) holds exactly if index_of(t) is not npos, and exactly if t is
\* a tag of the list (all tags examined where the list has just been
\* accepted, the tag asked for at every call).
C6_Contains ==
    fields_state = "accepted" =>
        /\ out.op = "fields" =>
              \A t \in field :
                  /\ contains(t) <=> index_of(t) # npos
                  /\ contains(t) <=> PositionsOf(t) # {}
        /\ out.op = "contains" =>
              /\ out.r.kind = "bool"
              /\ out.r.bv <=> PositionsOf(out.f) # {}
              /\ out.r.bv <=> index_of(out.f) # npos

\* C6 witness: contains said true of the first tag of a list
C6_Witness ==
    /\ fields_state = "accepted"
    /\ out.op = "contains"
    /\ Len(as_array) = 2
    /\ out.f = as_array[1]
    /\ out.r.bv

\* C7: get<f>(r) yields the element at position index_of(f), the one
\* std::get at that position yields, when f is a tag of the record, and is
\* rejected when it is not.
C7_GetByTag ==
    (record_state = "accepted" /\ out.op = "get<field>") =>
        IF PositionsOf(out.f) # {}
        THEN /\ out.r.kind = "element"
             /\ out.r.idx = index_of(out.f)
             /\ out.r.idx \in PositionsOf(out.f)
             /\ out.r.v = tuple[out.r.idx + 1]
        ELSE out.r = ill_formed

\* C7 witness: a record of two elements was asked for a tag it has not
C7_Witness ==
    /\ record_state = "accepted"
    /\ Len(tuple) = 2
    /\ out.op = "get<field>"
    /\ PositionsOf(out.f) = {}
    /\ out.r.kind = "rejected"

\* C8: after clear() every element with a clear operation is empty and every
\* other element holds the default value of its type (0), whatever the
\* types and values of the other elements.
C8_Clear ==
    out.op = "clear" =>
        /\ Len(tuple) = Len(field_types)
        /\ \A i \in 1 .. Len(tuple) :
              IF field_types[i] = "container"
              THEN tuple[i].type = "container" /\ Len(tuple[i].items) = 0
              ELSE tuple[i] = scalar(0)

\* C8 witness: clear() on a record of a container and a number
C8_Witness ==
    /\ out.op = "clear"
    /\ field_types = <<"container", "scalar">>
    /\ tuple = <<container(<<>>), scalar(0)>>

C9_Fresh ==
    (out.op = "record" /\ record_state = "accepted") =>
        \A i \in 1 .. Len(as_array) :
            get_impl(as_array[i]).v = default_value(field_types[i])

\* the tags of the tag list
TagsOf == {as_array[i] : i \in 1 .. Len(as_array)}

\* a step of the program on an instance of the record
C9_Step ==
    record_state = "accepted" =>
        /\ (out'.op = "get<field>=" /\ out'.r.kind = "element") =>
              /\ out'.f \in TagsOf
              /\ \A f \in TagsOf :
                    out'.f = f =>
                        /\ get_impl(f)'.v = out'.r.v
                        /\ \A g \in TagsOf \ {f} : get_impl(g)' = get_impl(g)
        /\ out'.op \notin {"get<field>=", "clear"} =>
              \A g \in TagsOf : get_impl(g)' = get_impl(g)

\* C9: a write by tag is read back by tag unchanged and changes what no
\* other tag reads; reads and the other calls that do not write change
\* nothing that is read; a freshly constructed record reads the default
\* value of the element's type under every tag.
C9_RoundTrip == []C9_Fresh /\ [][C9_Step]_vars

\* C9 witness: both elements of a record have been written, and the second
\* is read back by its tag
C9_Witness ==
    /\ record_state = "accepted"
    /\ Len(tuple) = 2
    /\ tuple[1] # default_value(field_types[1])
    /\ tuple[2] # default_value(field_types[2])
    /\ tuple[1] # tuple[2]
    /\ out.op = "get<field>"
    /\ out.f = as_array[2]
    /\ out.r.v = tuple[2]

\* C10: a tag list is accepted exactly if no tag stands at two positions
\* of it.
C10_NoDuplicates ==
    fields_state # "declared" =>
        /\ fields_state = "accepted" <=>
              ~(\E i \in 1 .. Len(as_array), j \in 1 .. Len(as_array) :
                    i # j /\ as_array[i] = as_array[j])
        /\ fields_state = "rejected" <=>
              Cardinality({as_array[i] : i \in 1 .. Len(as_array)}) < Len(as_array)

\* C10 witness: a list with the same tag first and last was rejected
C10_Witness ==
    /\ Len(as_array) = 3
    /\ as_array[1] = as_array[3]
    /\ as_array[1] # as_array[2]
    /\ fields_state = "rejected"
    /\ out.op = "fields"

\* C11: a record type is accepted only if it has as many element types as
\* its tag list has tags, and with an accepted tag list exactly then; a
\* record instance exists only of an accepted record type, so every instance
\* has as many elements as its tag list has tags.
C11_SameSize ==
    /\ record_state = "accepted" =>
          /\ Len(field_types) = Len(as_array)
          /\ Len(tuple) = Len(as_array)
    /\ (record_state = "rejected" /\ fields_state = "accepted") =>
          Len(field_types) # Len(as_array)
    /\ record_state # "accepted" => tuple = <<>>
    /\ out.op = "record" =>
          (out.r = ill_formed) <=> (record_state = "rejected")

\* C11 witness: one element type with the tag list {seq, id} was rejected
C11_Witness ==
    /\ out.op = "record"
    /\ fields_state = "accepted"
    /\ Len(as_array) = 2
    /\ Len(field_types) = 1
    /\ record_state = "rejected"
    /\ tuple = <<>>

C18_State ==
    /\ record_state = "accepted" =>
          expander(expander(tuple)) = expander(tuple)
    /\ out.op = "clear" =>
          /\ expander(tuple) = tuple
          /\ tuple = default_record
          /\ Len(tuple) = Len(field_types)
          /\ Len(tuple) = Len(as_array)

\* a call of clear()
C18_Step ==
    out'.op = "clear" =>
        /\ tuple' = expander(tuple)
        /\ Len(tuple') = Len(tuple)
        /\ as_array' = as_array
        /\ field_types' = field_types
        /\ \A f \in UsedFields :
              /\ index_of(f)' = index_of(f)
              /\ contains(f)' = contains(f)

\* C18: clear() on a cleared record changes nothing, from whatever state
\* the record was cleared; a cleared record equals, element by element, the
\* default-constructed record of its type; clear() changes neither the
\* number of elements nor what index_of and contains yield for any tag.
C18_ClearIdempotent == []C18_State /\ [][C18_Step]_vars

\* C18 witness: clear() on a record of two elements, done again, leaves it
\* as it is, and the second tag is still at position 1
C18_Witness ==
    /\ out.op = "clear"
    /\ Len(tuple) = 2
    /\ expander(tuple) = tuple
    /\ tuple = default_record
    /\ index_of(as_array[2]) = 1
    /\ contains(as_array[2])

\* the calls that store a value in a strong type object
StoringCalls == IncrementDecrement \cup {"derived_t", "operator="}

C17_State ==
    /\ ret.op = "operator=" =>
          /\ value[ret.self] = value[ret.other]
          /\ get(ret.self) = get(ret.other)
    /\ out.op = "record(record const &)" =>
          /\ copy.made
          /\ copy.elems = tuple
    /\ out.op = "operator=(record const &)" => tuple = copy.elems
    /\ copy.made => Len(copy.elems) = Len(tuple)

C17_Step ==
    /\ ret'.op \in StoringCalls =>
          \A s \in Names :
              ret'.self = s =>
                  \A n \in Names \ {lvalue(s)} :
                      (n = "h" /\ ret'.bind) \/ value'[n] = value[n]
    /\ out'.op \in {"get<field>=", "clear"} => copy' = copy
    /\ out'.op \in {"get<field>(copy)=", "clear(copy)"} => tuple' = tuple
    /\ out'.op = "record(record const &)" =>
          /\ tuple' = tuple
          /\ copy'.elems = tuple
    /\ out'.op = "operator=(record const &)" =>
          /\ copy' = copy
          /\ tuple' = copy.elems

\* C17: a copy holds what its source holds, and from then on the two are
\* separate values: ++, --, assignment and construction on one strong type
\* object change the held value of no other object, the value returned by
\* x++ or x-- and kept as h included; a write by tag or a clear() on a
\* record changes no element of its copy, nor one on the copy an element of
\* the record.
C17_CopiesIndependent == []C17_State /\ [][C17_Step]_vars

\* C17 witness: a record of two elements was copied and then cleared; the
\* copy still holds the two elements written before
C17_Witness ==
    /\ out.op = "clear"
    /\ copy.made
    /\ Len(tuple) = 2
    /\ tuple = default_record
    /\ \A i \in 1 .. 2 : copy.elems[i] # tuple[i]

====
